---------------------------- MODULE Spec2Model ----------------------------
(***************************************************************************)
(* A model of topo_order_commits.py: find_git, get_branches, get_graph     *)
(* (the object graph loader), the Kahn sorter and the annotated formatter  *)
(* of topo_order_commits.                                                  *)
(*                                                                         *)
(* Commit identifiers are opaque 40-digit hashes: the program only         *)
(* compares them for equality and uses them as keys, and the iteration     *)
(* order of a Python set of strings is not fixed by the language (string   *)
(* hashing is randomised per process).  Identifiers are therefore numbered *)
(* 1, 2, ... in the order in which the run first meets them, and every     *)
(* iteration over a set is a choice among all orders of its elements.      *)
(*                                                                         *)
(* The files of the repository are the inputs of the steps that read them: *)
(* the reference files are drawn when get_branches reads them, a commit    *)
(* object is drawn when get_graph opens it, and is recorded in `objState'  *)
(* and `objects' so that a second read sees the same file.                 *)
(***************************************************************************)
EXTENDS Integers, Sequences, FiniteSets, TLC

\* ------------------------------------------------------------------ bounds
NumCommits == 3      \* distinct commit identifiers
MaxLines == 4        \* parent lines in the whole object store
MaxBranches == 2     \* files under refs/heads
MaxDepth == 5        \* components of the working directory's path

Ids == 1..NumCommits

VARIABLES
    \* find_git
    fpc,            \* "start" | "loop" | "returned" | "exited"
    cwdDepth,       \* number of components of Path.cwd(); the root has 0
    gitAt,          \* depths (0 = root .. cwdDepth) of the directories holding .git
    abs_dir,        \* depth of the directory find_git looks at
    levels,         \* len(abs_dir.parents)
    fi,             \* find_git's i
    git_dir,        \* depth of the directory whose .git was returned, or -1
    \* main pipeline
    pc,             \* program position of topo_order_commits
    branch_heads,   \* values of the branch dict, in its insertion order
    objState,       \* per identifier: "unread" | "ok" | "missing"
    objects,        \* per identifier: the decoded text of its object, once read
    decodes,        \* per identifier: number of times its object was decoded
    to_visit, visited,
    graph,          \* keys of the graph dict, in insertion order
    parents, children,   \* CommitNode.parents / CommitNode.children per key
    root_nodes, topo_sorted,
    out             \* what was written to standard output, one entry per commit

findVars == <<fpc, cwdDepth, gitAt, abs_dir, levels, fi, git_dir>>
loadVars == <<branch_heads, objState, objects, decodes, to_visit, visited,
              graph, parents, children>>
sortVars == <<root_nodes, topo_sorted, out>>
mainVars == <<pc, loadVars, sortVars>>
vars == <<findVars, mainVars>>

\* ----------------------------------------------------------------- helpers
Max(a, b) == IF a >= b THEN a ELSE b
Min(a, b) == IF a <= b THEN a ELSE b
Range(s) == {s[i] : i \in DOMAIN s}
Last(s) == s[Len(s)]
Front(s) == SubSeq(s, 1, Len(s) - 1)
Contains(s, x) == \E i \in DOMAIN s : s[i] = x

RECURSIVE SetMax(_)
SetMax(S) == IF S = {} THEN 0
             ELSE LET x == CHOOSE y \in S : TRUE IN Max(x, SetMax(S \ {x}))

RECURSIVE Sum(_, _)
Sum(f, S) == IF S = {} THEN 0
             ELSE LET x == CHOOSE y \in S : TRUE
                  IN f[x] + Sum(f, S \ {x})

\* Every order in which a set can be iterated.
Orders(S) == {s \in [1..Cardinality(S) -> S] :
                 \A i, j \in 1..Cardinality(S) : s[i] = s[j] => i = j}

\* The ascending enumeration of a set of numbers.
RECURSIVE Ascending(_)
Ascending(S) == IF S = {} THEN <<>>
                ELSE LET m == CHOOSE x \in S : \A y \in S : x <= y
                     IN <<m>> \o Ascending(S \ {m})

\* Sequences of n identifiers in which a new identifier is always the next
\* unused number, k identifiers being in use already.
RECURSIVE HashSeqs(_, _)
HashSeqs(k, n) ==
    IF n = 0 THEN {<<>>}
    ELSE UNION {{<<h>> \o t : t \in HashSeqs(Max(k, h), n - 1)} :
                   h \in 1..Min(k + 1, NumCommits)}


\* topo_sorted.reverse() left out
ReverseForgotten(s) == s

\* topo_sorted.reverse()
Reverse(s) == [i \in 1..Len(s) |-> s[Len(s) + 1 - i]]

\* ---------------------------------------------------------------- find_git
\* The directories from the root (depth 0) down to the working directory
\* (depth cwdDepth); gitAt holds the depths of those with a .git entry.
FindInit ==
    /\ fpc = "start"
    /\ cwdDepth \in 0..MaxDepth
    /\ gitAt \in SUBSET (0..cwdDepth)
    /\ abs_dir = -1 /\ levels = -1 /\ fi = -1 /\ git_dir = -1

\* abs_dir = Path.cwd(); levels = len(abs_dir.parents); i = 0
FindGitBegin ==
    /\ fpc = "start"
    /\ abs_dir' = cwdDepth
    /\ levels' = cwdDepth
    /\ fi' = 0
    /\ fpc' = "loop"
    /\ UNCHANGED <<cwdDepth, gitAt, git_dir, mainVars>>

\* os.path.exists(abs_dir / '.git')
GitExists(d) == d \in gitAt

\* while (i < levels)
FindGitContinue(i, n) == i < n

\* a loop iteration that finds .git and returns
FindGitFound ==
    /\ fpc = "loop"
    /\ FindGitContinue(fi, levels)
    /\ GitExists(abs_dir)
    /\ git_dir' = abs_dir
    /\ fpc' = "returned"
    /\ UNCHANGED <<cwdDepth, gitAt, abs_dir, levels, fi, mainVars>>

\* a loop iteration that goes up one level
FindGitUp ==
    /\ fpc = "loop"
    /\ FindGitContinue(fi, levels)
    /\ ~GitExists(abs_dir)
    /\ abs_dir' = Max(abs_dir - 1, 0)
    /\ fi' = fi + 1
    /\ UNCHANGED <<fpc, cwdDepth, gitAt, levels, git_dir, mainVars>>

\* sys.stderr.write('Not inside a Git repository\n'); sys.exit(1)
FindGitExit ==
    /\ fpc = "loop"
    /\ ~FindGitContinue(fi, levels)
    /\ fpc' = "exited"
    /\ UNCHANGED <<cwdDepth, gitAt, abs_dir, levels, fi, git_dir, mainVars>>

\* ------------------------------------------------------- the object store
TreeLine == [tag |-> "tree", hash |-> 0]
ParentLine(h) == [tag |-> "parent", hash |-> h]

\* The decoded text of a commit object whose parent lines name ps.
CommitText(ps) == <<TreeLine>> \o [i \in 1..Len(ps) |-> ParentLine(ps[i])]

\* parent_regex.search in place of findall: the first parent line only
ParentHashesFirstOnly(text) ==
    LET sel == SelectSeq(text, LAMBDA l : l.tag = "parent")
    IN IF sel = <<>> THEN <<>> ELSE <<sel[1].hash>>

\* parent_regex.findall(decompressed_contents)
ParentHashes(text) ==
    LET sel == SelectSeq(text, LAMBDA l : l.tag = "parent")
    IN [i \in 1..Len(sel) |-> sel[i].hash]

\* The places of the parent lines in the text of the object of c, and the
\* parents the object declares (none while the object is unread).
ParentLines(c) == {j \in DOMAIN objects[c] : objects[c][j].tag = "parent"}
Declared(c) == {objects[c][j].hash : j \in ParentLines(c)}

SeenMax == SetMax(Range(branch_heads) \cup UNION {Declared(c) : c \in Ids})
LinesUsed == Sum([c \in Ids |-> Cardinality(ParentLines(c))], Ids)

\* What open() and read() of the object file of c can give.
ReadChoices(c) ==
    IF objState[c] # "unread"
    THEN {[st |-> objState[c], text |-> objects[c]]}
    ELSE {[st |-> "missing", text |-> <<>>]} \cup
         {[st |-> "ok", text |-> CommitText(ps)] :
            ps \in UNION {HashSeqs(SeenMax, n) : n \in 0..(MaxLines - LinesUsed)}}

\* -------------------------------------------------------------- CommitNode
rm_parent(par, c, parent_hash) == [par EXCEPT ![c] = @ \ {parent_hash}]
add_child(ch, p, child_hash) == [ch EXCEPT ![p] = @ \cup {child_hash}]
set_parents(par, c, parent_hashes) == [par EXCEPT ![c] = Range(parent_hashes)]

\* ------------------------------------------------------------ get_branches
MainInit ==
    /\ pc = "get_branches"
    /\ branch_heads = <<>>
    /\ objState = [c \in Ids |-> "unread"]
    /\ objects = [c \in Ids |-> <<>>]
    /\ decodes = [c \in Ids |-> 0]
    /\ to_visit = <<>> /\ visited = {}
    /\ graph = <<>>
    /\ parents = [c \in Ids |-> {}]
    /\ children = [c \in Ids |-> {}]
    /\ root_nodes = <<>> /\ topo_sorted = <<>> /\ out = <<>>

\* The reference files, in sorted path order, give the dict's entries.
GetBranches ==
    /\ pc = "get_branches"
    /\ \E refs \in UNION {HashSeqs(0, n) : n \in 0..MaxBranches} :
           branch_heads' = refs
    /\ pc' = "get_graph"
    /\ UNCHANGED <<findVars, objState, objects, decodes, to_visit, visited,
                   graph, parents, children, sortVars>>

\* --------------------------------------------------------------- get_graph
GetGraphBegin ==
    /\ pc = "get_graph"
    /\ graph' = <<>>
    /\ to_visit' = branch_heads
    /\ visited' = {}
    /\ pc' = "load"
    /\ UNCHANGED <<findVars, branch_heads, objState, objects, decodes,
                   parents, children, sortVars>>

\* the visited test left out
NeverVisited(commit_hash, vis) == FALSE

\* if (commit_hash in visited)
AlreadyVisited(commit_hash, vis) == commit_hash \in vis

\* a popped identifier that was visited already: continue
LoadSkip ==
    /\ pc = "load"
    /\ to_visit # <<>>
    /\ AlreadyVisited(Last(to_visit), visited)
    /\ to_visit' = Front(to_visit)
    /\ UNCHANGED <<findVars, pc, branch_heads, objState, objects, decodes,
                   visited, graph, parents, children, sortVars>>

\* a failed open() swallowed, the object read as empty
OpenNeverFails(r) == FALSE

\* open(...) raises when the object file cannot be read
OpenFails(r) == r.st = "missing"

\* if (parent not in visited): to_visit.append(parent)
PushParent(tv, parent, vis) == IF parent \notin vis THEN Append(tv, parent) ELSE tv

\* add_child moved under `if (parent not in graph)'
LinkChildOnlyNew(g, parent, commit_hash) ==
    IF Contains(g.keys, parent) THEN g
    ELSE [keys |-> Append(g.keys, parent),
          ch |-> add_child(g.ch, parent, commit_hash)]

\* graph[parent].add_child(commit_hash), the node created when absent
LinkChild(g, parent, commit_hash) ==
    [keys |-> IF Contains(g.keys, parent) THEN g.keys ELSE Append(g.keys, parent),
     ch |-> add_child(g.ch, parent, commit_hash)]

\* for parent in parent_hashes: ...
RECURSIVE AddParents(_, _, _, _)
AddParents(parent_hashes, commit_hash, vis, s) ==
    IF parent_hashes = <<>> THEN s
    ELSE LET parent == Head(parent_hashes)
             g == LinkChild([keys |-> s.keys, ch |-> s.ch], parent, commit_hash)
         IN AddParents(Tail(parent_hashes), commit_hash, vis,
                       [tv |-> PushParent(s.tv, parent, vis),
                        keys |-> g.keys, ch |-> g.ch])

\* a popped identifier whose object cannot be opened: the exception leaves
\* get_graph and ends the run
LoadOpenError ==
    /\ pc = "load"
    /\ to_visit # <<>>
    /\ ~AlreadyVisited(Last(to_visit), visited)
    /\ LET commit_hash == Last(to_visit) IN
       \E r \in ReadChoices(commit_hash) :
           /\ OpenFails(r)
           /\ objState' = [objState EXCEPT ![commit_hash] = r.st]
    /\ to_visit' = Front(to_visit)
    /\ pc' = "io_error"
    /\ UNCHANGED <<findVars, branch_heads, objects, decodes, visited, graph,
                   parents, children, sortVars>>

\* a popped identifier that is decoded and expanded
LoadVisit ==
    /\ pc = "load"
    /\ to_visit # <<>>
    /\ ~AlreadyVisited(Last(to_visit), visited)
    /\ LET commit_hash == Last(to_visit) IN
       \E r \in ReadChoices(commit_hash) :
           /\ ~OpenFails(r)
           /\ LET parent_hashes == ParentHashes(r.text)
                  keys0 == IF Contains(graph, commit_hash) THEN graph
                           ELSE Append(graph, commit_hash)
                  s == AddParents(parent_hashes, commit_hash, visited,
                                  [tv |-> Front(to_visit), keys |-> keys0,
                                   ch |-> children])
              IN /\ objState' = [objState EXCEPT ![commit_hash] = r.st]
                 /\ objects' = [objects EXCEPT ![commit_hash] = r.text]
                 /\ decodes' = [decodes EXCEPT ![commit_hash] = @ + 1]
                 /\ parents' = set_parents(parents, commit_hash, parent_hashes)
                 /\ to_visit' = s.tv
                 /\ graph' = s.keys
                 /\ children' = s.ch
                 /\ visited' = visited \cup {commit_hash}
    /\ UNCHANGED <<findVars, pc, branch_heads, sortVars>>

\* the work list is exhausted: the visited-count check, then return graph
LoadDone ==
    /\ pc = "load"
    /\ to_visit = <<>>
    /\ pc' = IF Cardinality(visited) # Len(graph) THEN "load_error" ELSE "roots"
    /\ UNCHANGED <<findVars, loadVars, sortVars>>

\* ------------------------------------------------------------------ sorter
\* root_nodes = [node for node in commit_nodes.values() if not node.get_parents()]
RootNodes(keys, par) == SelectSeq(keys, LAMBDA k : par[k] = {})

SortInit ==
    /\ pc = "roots"
    /\ topo_sorted' = <<>>
    /\ root_nodes' = RootNodes(graph, parents)
    /\ pc' = "sort"
    /\ UNCHANGED <<findVars, loadVars, out>>

\* the child appended without the test of its parent set
PushAlways(rn, child, par) == Append(rn, child)

\* if not child_node.get_parents(): root_nodes.append(child_node)
PushIfRoot(rn, child, par) == IF par[child] = {} THEN Append(rn, child) ELSE rn

\* for child_hash in parent.get_children(): ..., the set iterated in `order'
RECURSIVE VisitChildren(_, _, _)
VisitChildren(order, parent, s) ==
    IF order = <<>> THEN s
    ELSE LET child == Head(order)
             par == rm_parent(s.par, child, parent)
         IN VisitChildren(Tail(order), parent,
                          [par |-> par, rn |-> PushIfRoot(s.rn, child, par)])

\* one iteration of while root_nodes
SortStep ==
    /\ pc = "sort"
    /\ root_nodes # <<>>
    /\ LET parent == Last(root_nodes) IN
       \E order \in Orders(children[parent]) :
           LET s == VisitChildren(order, parent,
                                  [par |-> parents, rn |-> Front(root_nodes)])
           IN /\ topo_sorted' = Append(topo_sorted, parent)
              /\ parents' = s.par
              /\ root_nodes' = s.rn
    /\ UNCHANGED <<findVars, pc, branch_heads, objState, objects, decodes,
                   to_visit, visited, graph, children, out>>

\* the length check, then topo_sorted.reverse()
SortDone ==
    /\ pc = "sort"
    /\ root_nodes = <<>>
    /\ IF Len(topo_sorted) # Len(graph)
       THEN /\ pc' = "sort_error"
            /\ UNCHANGED topo_sorted
       ELSE /\ topo_sorted' = Reverse(topo_sorted)
            /\ pc' = IF topo_sorted = <<>> THEN "done" ELSE "print"
    /\ UNCHANGED <<findVars, loadVars, root_nodes, out>>

\* --------------------------------------------------------------- formatter
\* sorted(key for key, value in branch_heads.items() if value == node_hash);
\* a branch is named by its place in the sorted reference paths.
BranchNames(heads, node_hash) ==
    Ascending({j \in DOMAIN heads : heads[j] = node_hash})

\* the test made on the node's own parent set, which the sorter has emptied
IsStickyByParentSet(node_hash, i, ts, ch, par) ==
    i < Len(ts) /\ ts[i + 1] \notin par[node_hash]

\* next_node and node_hash not in next_node.get_children()
IsSticky(node_hash, i, ts, ch, par) ==
    i < Len(ts) /\ node_hash \notin ch[ts[i + 1]]

\* the list built from the node's own parent set, which the sorter has emptied
StickyEndsFromParentSet(node_hash, ts, ch, par) ==
    SelectSeq(ts, LAMBDA n : n \in par[node_hash])

\* [n.get_hash() for n in topo_sorted if node_hash in n.get_children()]
StickyEnds(node_hash, ts, ch, par) ==
    SelectSeq(ts, LAMBDA n : node_hash \in ch[n])

\* The orders in which ' '.join(next_node.get_children()) can list the set.
JoinOrders(i, ts, ch, par) ==
    IF IsSticky(ts[i], i, ts, ch, par) THEN Orders(ch[ts[i + 1]]) ELSE {<<>>}

\* What one iteration of the printing loop writes for topo_sorted[i].
OutEntry(i, ts, heads, ch, par, order) ==
    LET node_hash == ts[i]
        sticky == IsSticky(node_hash, i, ts, ch, par)
    IN [hash |-> node_hash,
        names |-> BranchNames(heads, node_hash),
        sticky |-> sticky,
        ends |-> IF sticky THEN StickyEnds(node_hash, ts, ch, par) ELSE <<>>,
        starts |-> order]

\* one iteration of the printing loop
PrintStep ==
    /\ pc = "print"
    /\ Len(out) < Len(topo_sorted)
    /\ LET i == Len(out) + 1 IN
       \E order \in JoinOrders(i, topo_sorted, children, parents) :
           out' = Append(out, OutEntry(i, topo_sorted, branch_heads, children,
                                       parents, order))
    /\ pc' = IF Len(out) + 1 = Len(topo_sorted) THEN "done" ELSE "print"
    /\ UNCHANGED <<findVars, loadVars, root_nodes, topo_sorted>>

\* ---------------------------------------------------------- specifications
\* The main pipeline, started where find_git has returned the .git of the
\* working directory.
Init ==
    /\ fpc = "returned" /\ cwdDepth = 1 /\ gitAt = {1} /\ abs_dir = 1
    /\ levels = 1 /\ fi = 0 /\ git_dir = 1
    /\ MainInit

Next ==
    \/ GetBranches
    \/ GetGraphBegin
    \/ LoadSkip
    \/ LoadOpenError
    \/ LoadVisit
    \/ LoadDone
    \/ SortInit
    \/ SortStep
    \/ SortDone
    \/ PrintStep

Spec == Init /\ [][Next]_vars

\* find_git alone, over every working directory and placement of .git.
FindGitInit ==
    /\ FindInit
    /\ pc = "find_git"
    /\ branch_heads = <<>>
    /\ objState = [c \in Ids |-> "unread"]
    /\ objects = [c \in Ids |-> <<>>]
    /\ decodes = [c \in Ids |-> 0]
    /\ to_visit = <<>> /\ visited = {}
    /\ graph = <<>>
    /\ parents = [c \in Ids |-> {}]
    /\ children = [c \in Ids |-> {}]
    /\ root_nodes = <<>> /\ topo_sorted = <<>> /\ out = <<>>

FindGitNext ==
    \/ FindGitBegin
    \/ FindGitFound
    \/ FindGitUp
    \/ FindGitExit

FindGitSpec == FindGitInit /\ [][FindGitNext]_vars


\* ------------------------------------------------------ the repository read
\* The identifiers reachable from S by following declared parent lines.
RECURSIVE ReachFrom(_)
ReachFrom(S) ==
    LET n == S \cup UNION {Declared(c) : c \in S}
    IN IF n = S THEN S ELSE ReachFrom(n)

Tips == Range(branch_heads)
Reachable == ReachFrom(Tips)
Ancestors(c) == ReachFrom(Declared(c))
Acyclic == \A c \in Reachable : c \notin Ancestors(c)
AllReadable == \A c \in Reachable : objState[c] = "ok"
NoneMissing == \A c \in Reachable : objState[c] # "missing"
DuplicateLines(c) == Cardinality(ParentLines(c)) > Cardinality(Declared(c))
Printed == {out[i].hash : i \in DOMAIN out}
NoDuplicates(s) == \A i, j \in DOMAIN s : s[i] = s[j] => i = j
RunEnded == pc \in {"done", "io_error", "load_error", "sort_error"}
GraphReturned == pc \in {"roots", "sort", "sort_error", "print", "done"}

\* C1: when the run has printed its sequence, every commit's line comes
\* strictly before the line of each parent its object declares, and each of
\* those parents has a line: the sequence is a topological order, newest first.
C1_NewestFirstTopologicalOrder ==
    /\ \A i, j \in DOMAIN out :
           out[j].hash \in Declared(out[i].hash) => i < j
    /\ pc = "done" =>
           \A i \in DOMAIN out : \A p \in Declared(out[i].hash) :
               \E j \in DOMAIN out : i < j /\ out[j].hash = p

\* a finished run over a merge commit with two distinct parents
C1_Witness ==
    /\ pc = "done"
    /\ Len(out) = NumCommits
    /\ \E i \in DOMAIN out : Cardinality(Declared(out[i].hash)) >= 2

\* The run in which every set is iterated in ascending order.
RECURSIVE KahnAscending(_, _, _)
KahnAscending(rn, ts, par) ==
    IF rn = <<>> THEN ts
    ELSE LET parent == Last(rn)
             s == VisitChildren(Ascending(children[parent]), parent,
                                [par |-> par, rn |-> Front(rn)])
         IN KahnAscending(s.rn, Append(ts, parent), s.par)

LoadedParents == [c \in Ids |-> Declared(c)]

AscendingOutput ==
    LET ts == Reverse(KahnAscending(RootNodes(graph, LoadedParents), <<>>,
                                    LoadedParents))
    IN [i \in 1..Len(ts) |->
          OutEntry(i, ts, branch_heads, children, parents,
                   IF IsSticky(ts[i], i, ts, children, parents)
                   THEN Ascending(children[ts[i + 1]]) ELSE <<>>)]

\* C2: the output of a finished run is a function of the refs and the object
\* contents only: it is the output of the run that iterates every children
\* set in ascending order, whatever order this run iterated them in.
C2_OutputIndependentOfSetOrder ==
    pc = "done" => out = AscendingOutput

\* C3 as stated: for all graphs, once the run has ended, each identifier
\* reachable from the branch tips has exactly one commit line and nothing
\* else has one.
C3_AllGraphsPrinted ==
    (RunEnded /\ NoneMissing) =>
        /\ Printed = Reachable
        /\ Len(out) = Cardinality(Reachable)

\* C3 amended: for every acyclic graph whose reachable objects are all
\* readable the run ends with exactly one commit line per reachable
\* identifier and no other commit line.
C3_AcyclicGraphsPrinted ==
    /\ (RunEnded /\ NoneMissing /\ Acyclic) =>
           /\ pc = "done"
           /\ Printed = Reachable
           /\ Len(out) = Cardinality(Reachable)
    /\ NoDuplicates([i \in DOMAIN out |-> out[i].hash])
    /\ Printed \subseteq Reachable

\* a finished run over a graph in which a commit is reached along two paths
C3_Witness ==
    /\ pc = "done"
    /\ Len(out) = NumCommits
    /\ \E c \in Reachable :
           Cardinality({d \in Reachable : c \in Declared(d)}) >= 2

\* A single root and no branching: every commit has at most one parent and
\* at most one child.
LinearChain ==
    /\ Acyclic
    /\ \A c \in Reachable :
           /\ Cardinality(Declared(c)) <= 1
           /\ Cardinality({d \in Reachable : c \in Declared(d)}) <= 1
    /\ Cardinality({c \in Reachable : Declared(c) = {}}) = 1

\* C4: a discontinuity block follows a printed commit exactly when a next
\* commit exists in the sequence and is not a declared parent of it; none
\* follows the last commit, and a linear chain has none at all.
C4_BlockIffNextNotParent ==
    /\ \A i \in DOMAIN out :
           out[i].sticky <=>
               /\ i < Len(topo_sorted)
               /\ topo_sorted[i + 1] \notin Declared(out[i].hash)
    /\ LinearChain => \A i \in DOMAIN out : ~out[i].sticky

\* a finished run that printed a block after one commit and none after
\* another commit that is not the last
C4_Witness ==
    /\ pc = "done"
    /\ \E i, j \in DOMAIN out :
           /\ out[i].sticky
           /\ ~out[j].sticky /\ j < Len(out)

C6_MissingObjectIsFatal ==
    /\ GraphReturned => AllReadable
    /\ (\E c \in Ids : objState[c] = "missing") =>
           /\ pc = "io_error"
           /\ root_nodes = <<>> /\ topo_sorted = <<>> /\ out = <<>>

\* an unreadable object met behind a readable tip
C6_Witness ==
    /\ pc = "io_error"
    /\ \E c \in Ids : objState[c] = "missing" /\ c \notin Tips
    /\ visited # {}

\* C7: find_git ends by returning the .git of the deepest directory on the
\* path from the working directory up to the root that has one, and ends by
\* exiting exactly when no directory on that path has one.
C7_FindGitNearestOrExit ==
    /\ fpc = "returned" => gitAt # {} /\ git_dir = SetMax(gitAt)
    /\ fpc = "exited" => gitAt = {}

\* C8: when get_graph returns, parents and children are inverse relations,
\* each node's parent set is the set of parents its object declares, and
\* every tip and every parent is a key of the graph.
C8_ParentsChildrenInverse ==
    pc = "roots" =>
        /\ \A p, c \in Ids : p \in parents[c] <=> c \in children[p]
        /\ \A c \in Range(graph) : parents[c] = Declared(c)
        /\ Tips \cup UNION {parents[c] : c \in Ids} \subseteq Range(graph)
        /\ \A c \in Ids \ Range(graph) : parents[c] = {} /\ children[c] = {}

\* get_graph returned a graph with a repeated parent line, a commit that is
\* its own parent and a tip shared by two branches
C8_Witness ==
    /\ pc = "roots"
    /\ \E c \in Ids : DuplicateLines(c)
    /\ \E c \in Ids : c \in parents[c]
    /\ Len(branch_heads) > Cardinality(Tips)

\* C9: when the Kahn loop ends, the length check fails exactly when the
\* loaded graph has a parent cycle; when it passes, every node was emitted
\* exactly once and every parent set is empty.
C9_SortFailsIffCyclic ==
    /\ (pc = "sort" /\ root_nodes = <<>>) =>
           (Len(topo_sorted) # Len(graph) <=> ~Acyclic)
    /\ pc = "sort_error" => ~Acyclic
    /\ pc \in {"print", "done"} =>
           /\ Acyclic
           /\ root_nodes = <<>>
           /\ NoDuplicates(topo_sorted)
           /\ Range(topo_sorted) = Range(graph)
           /\ \A c \in Ids : parents[c] = {}

\* the length check failed on a cycle through two commits
C9_Witness ==
    /\ pc = "sort_error"
    /\ \A c \in Ids : c \notin Declared(c)
    /\ topo_sorted # <<>>

LoadInvariant ==
    /\ pc = "load" =>
           \A k \in Range(graph) : k \in visited \/ Contains(to_visit, k)
    /\ \A c \in Ids : decodes[c] <= 1
    /\ \A c \in visited : decodes[c] = 1
    /\ pc # "load_error"
    /\ GraphReturned =>
           /\ visited = Range(graph)
           /\ visited = Reachable
           /\ NoDuplicates(graph)

\* The work list's length plus the parent lines of the objects not yet
\* decoded (at most MaxLines - LinesUsed of them are left to read).
LoadRank == Len(to_visit) + (MaxLines - LinesUsed)

\* An iteration that stays in the loop lowers the rank, which is never
\* negative: the loop cannot run for ever.
LoadProgress ==
    (pc = "load" /\ pc' = "load") => (LoadRank' < LoadRank /\ LoadRank' >= 0)

\* C10: the work-list loop ends (every iteration lowers a rank that stays
\* non-negative); no object is decoded twice; at every iteration every graph
\* key is visited or on the work list; at exhaustion the visited set is the
\* key set, which is the reachable set, and the visited-count error is not
\* raised.
C10_LoaderTerminatesVisitingOnce ==
    []LoadInvariant /\ [][LoadProgress]_vars

\* the work list holds an identifier twice while the loop runs on a cycle
C10_Witness ==
    /\ pc = "load"
    /\ \E i, j \in DOMAIN to_visit : i # j /\ to_visit[i] = to_visit[j]
    /\ \E c \in visited : c \in Ancestors(c)

=============================================================================
